---------------------------- MODULE Spec2Model ----------------------------
(***************************************************************************)
(* MataOCR frontend: the OCR demo component (two variants), the demo page, *)
(* the fetch client MataOCRAPI and the axios client MataOCRClient.         *)
(*                                                                         *)
(* A behaviour exercises one of these programs, chosen by `comp` in        *)
(* Init.  Every action is one synchronous run of JavaScript: an event      *)
(* handler, or the continuation of an async function after an await.       *)
(* React state written in one such run is rendered together.               *)
(***************************************************************************)
EXTENDS Integers, Sequences, FiniteSets, TLC

(***************************************************************************)
(* JavaScript values.  Every value is a record with a type tag `t`.        *)
(* A string is the sequence of the literal pieces it was built from.       *)
(***************************************************************************)
Null == [t |-> "null"]

Undefined == [t |-> "undefined"]

Str(pieces) == [t |-> "str", s |-> pieces]

Num(n) == [t |-> "num", n |-> n]

Bool(b) == [t |-> "bool", b |-> b]

File(size, type) == [t |-> "file", size |-> size, type |-> type]

\* A parsed JSON object with the fields the clients read (Undefined: absent).
Obj(success, detail, error, message, language_detected) ==
    [t |-> "obj", success |-> success, detail |-> detail, error |-> error,
     message |-> message, language_detected |-> language_detected]

\* A thrown Error: its class and its message.
Err(name, message) == [t |-> "error", name |-> name, message |-> message]

\* ToBoolean
Truthy(v) ==
    CASE v.t = "null" -> FALSE
      [] v.t = "undefined" -> FALSE
      [] v.t = "str" -> v.s # <<>>
      [] v.t = "num" -> v.n # 0
      [] v.t = "bool" -> v.b
      [] OTHER -> TRUE

\* a || b
Or(a, b) == IF Truthy(a) THEN a ELSE b

\* Template literal / string concatenation.
Concat(a, b) == Str(a.s \o b.s)

\* v.field throws a TypeError exactly when v is null or undefined.
CanRead(v) == v.t \notin {"null", "undefined"}

\* v.field, for a v that can be read: primitives have no such property.
Prop(v, field) == IF v.t = "obj" THEN v[field] ELSE Undefined

PropTypeError == Err("TypeError", Str(<<"Cannot read properties of null">>))

JsonSyntaxError == Err("SyntaxError", Str(<<"Unexpected token < in JSON">>))

FetchTypeError == Err("TypeError", Str(<<"Failed to fetch">>))

(***************************************************************************)
(* Inputs: files, languages, HTTP responses.                               *)
(***************************************************************************)
\* 10 * 1024 * 1024
maxSize == 10 * 1024 * 1024

allowedTypes == <<"image/jpeg", "image/png", "image/jpg", "application/pdf">>

\* Files offered to validateFile on its own: every size class, every type class.
FileSizes == {0, 1, maxSize - 1, maxSize, maxSize + 1}

FileTypes == {"image/jpeg", "image/png", "image/jpg", "application/pdf",
              "image/gif", "text/plain", ""}

AllFiles == {File(sz, ty) : sz \in FileSizes, ty \in FileTypes}

\* Files the user drops or picks in the demo.
Files == {File(sz, ty) : sz \in {maxSize, maxSize + 1},
                         ty \in {"image/jpeg", "application/pdf", "image/gif"}}

\* What a drop or a file dialog delivers: no file, one file, or several.
FileLists == {<<>>} \cup {<<f>> : f \in Files}
                    \cup {<<f, File(1, "image/png")>> : f \in Files}

languages == {"ms", "en", "zh", "ta", "ar"}

Statuses == {200, 404, 500}

StatusText(status) ==
    CASE status = 200 -> "200"
      [] status = 404 -> "404"
      [] status = 500 -> "500"

\* response.ok
Ok(status) == status >= 200 /\ status <= 299

\* What response.json() can resolve to.
JsonBodies ==
    { Null,
      Obj(Undefined, Undefined, Undefined, Undefined, Undefined),
      Obj(Undefined, Str(<<>>), Undefined, Undefined, Undefined),
      Obj(Undefined, Str(<<"Unsupported file type">>), Undefined, Undefined, Undefined),
      Obj(Bool(FALSE), Undefined, Undefined, Undefined, Undefined),
      Obj(Bool(FALSE), Undefined, Str(<<"No text found">>), Undefined, Undefined),
      Obj(Bool(TRUE), Undefined, Undefined, Undefined, Str(<<"ms">>)) }

\* The settlement of response.json(): a value, or a rejection.
Resolved(v) == [t |-> "resolved", value |-> v]

Rejected(e) == [t |-> "rejected", reason |-> e]

JsonSettlements == {Resolved(b) : b \in JsonBodies} \cup {Rejected(JsonSyntaxError)}

(***************************************************************************)
(* State.                                                                  *)
(***************************************************************************)
VARIABLES
    comp,              \* the program of this behaviour
    isDragging,        \* useState(false)
    isProcessing,      \* useState(false)
    selectedFile,      \* useState<File | null>(null)
    selectedLanguage,  \* useState('ms')
    result,            \* useState<OCRResult | null>(null)
    error,             \* useState<string | null>(null)
    showBoundingBoxes, \* useState(false)
    pc,                \* where the running async function is suspended
    frame,             \* what the running async function closed over
    req,               \* the HTTP request in flight (Null: none)
    resp,              \* what came back for the last request (Null: nothing yet)
    calls,             \* invocations of processOCR / the API function so far
    posts,             \* POSTs to /ocr/process issued so far
    outcome,           \* how the last API call settled (Null: not yet)
    window,            \* typeof window !== 'undefined'
    localStorage,      \* localStorage.getItem('mataocr_token')
    toasts             \* toast.error messages shown since the last request was sent

vars == <<comp, isDragging, isProcessing, selectedFile, selectedLanguage, result,
          error, showBoundingBoxes, pc, frame, req, resp, calls, posts, outcome,
          window, localStorage, toasts>>

ui == <<isDragging, isProcessing, selectedFile, selectedLanguage, result, error,
        showBoundingBoxes>>

\* Invocations explored per behaviour.
MaxCalls == 2

\* The two variants of the OCRDemo component: OCRDemo.tsx and part_001.
Demos == {"OCRDemo", "part_001"}

Components == Demos \cup {"api", "validateFile", "client", "DemoPage"}

NoFrame == [fn |-> "none", file |-> Null, language |-> ""]

Init ==
    /\ comp \in Components
    /\ isDragging = FALSE
    /\ isProcessing = FALSE
    /\ selectedFile = Null
    /\ selectedLanguage = "ms"
    /\ result = Null
    /\ error = Null
    /\ showBoundingBoxes = FALSE
    /\ pc = "idle"
    /\ frame = NoFrame
    /\ req = Null
    /\ resp = Null
    /\ calls = 0
    /\ posts = 0
    /\ outcome = Null
    /\ window \in BOOLEAN
    /\ comp # "client" => window
    /\ localStorage = Null
    /\ toasts = <<>>

(***************************************************************************)
(* OCRDemo.tsx                                                             *)
(***************************************************************************)
\* Faulty variant: a file of exactly maxSize bytes is too large.
validateFileExclusive(file) ==
    IF file.size >= maxSize
    THEN [valid |-> FALSE, error |-> Str(<<"File too large. Maximum size is 10MB.">>)]
    ELSE IF ~(\E i \in DOMAIN allowedTypes : allowedTypes[i] = file.type)
    THEN [valid |-> FALSE,
          error |-> Str(<<"File type not supported. Please use JPG, PNG, or PDF.">>)]
    ELSE [valid |-> TRUE, error |-> Undefined]

\* validateFile: the size test comes first.
validateFile(file) ==
    IF file.size > maxSize
    THEN [valid |-> FALSE, error |-> Str(<<"File too large. Maximum size is 10MB.">>)]
    ELSE IF ~(\E i \in DOMAIN allowedTypes : allowedTypes[i] = file.type)
    THEN [valid |-> FALSE,
          error |-> Str(<<"File type not supported. Please use JPG, PNG, or PDF.">>)]
    ELSE [valid |-> TRUE, error |-> Undefined]

\* part_001, validateFile: the same tests, other messages.
validateFile_p1(file) ==
    IF file.size > maxSize
    THEN [valid |-> FALSE, error |-> Str(<<"File too large. Maximum size: ", "10.0", "MB">>)]
    ELSE IF ~(\E i \in DOMAIN allowedTypes : allowedTypes[i] = file.type)
    THEN [valid |-> FALSE,
          error |-> Str(<<"File type not supported. Allowed: ",
                          "image/jpeg, image/png, image/jpg, application/pdf">>)]
    ELSE [valid |-> TRUE, error |-> Undefined]

\* Faulty variant: the displayed result is cleared before the file is validated.
handleFileSelectClears(file) ==
    LET validation == validateFile(file) IN
    IF ~validation.valid
    THEN /\ error' = Or(validation.error, Str(<<"Invalid file">>))
         /\ result' = Null
         /\ UNCHANGED selectedFile
    ELSE /\ error' = Null
         /\ result' = Null
         /\ selectedFile' = file

\* Faulty variant: a valid file is selected without setError(null).
handleFileSelectKeepsError(file) ==
    LET validation == validateFile(file) IN
    IF ~validation.valid
    THEN /\ error' = Or(validation.error, Str(<<"Invalid file">>))
         /\ UNCHANGED <<result, selectedFile>>
    ELSE /\ error' = error
         /\ result' = Null
         /\ selectedFile' = file

handleFileSelect(file) ==
    LET validation == validateFile(file) IN
    IF ~validation.valid
    THEN /\ error' = Or(validation.error, Str(<<"Invalid file">>))
         /\ UNCHANGED <<result, selectedFile>>
    ELSE /\ error' = Null
         /\ result' = Null
         /\ selectedFile' = file

\* part_001, handleFileSelect: the previous error and result are cleared first.
handleFileSelect_p1(file) ==
    LET validation == validateFile_p1(file) IN
    IF ~validation.valid
    THEN /\ error' = Or(validation.error, Str(<<"Invalid file">>))
         /\ result' = Null
         /\ UNCHANGED selectedFile
    ELSE /\ error' = Null
         /\ result' = Null
         /\ selectedFile' = file

\* handleDrop and handleFileInputChange call the handleFileSelect of their file.
FileSelected(file) ==
    IF comp = "OCRDemo" THEN handleFileSelect(file) ELSE handleFileSelect_p1(file)

handleDragOver ==
    /\ comp \in Demos
    /\ isDragging' = TRUE
    /\ UNCHANGED <<comp, isProcessing, selectedFile, selectedLanguage, result, error,
                   showBoundingBoxes, pc, frame, req, resp, calls, outcome, window,
                   localStorage, toasts, posts>>

handleDragLeave ==
    /\ comp \in Demos
    /\ isDragging' = FALSE
    /\ UNCHANGED <<comp, isProcessing, selectedFile, selectedLanguage, result, error,
                   showBoundingBoxes, pc, frame, req, resp, calls, outcome, window,
                   localStorage, toasts, posts>>

\* handleDrop for the files of one drop.
Drop(files) ==
    /\ comp \in Demos
    /\ isDragging' = FALSE
    /\ IF Len(files) > 0
       THEN FileSelected(files[1])
       ELSE UNCHANGED <<error, result, selectedFile>>
    /\ UNCHANGED <<comp, isProcessing, selectedLanguage, showBoundingBoxes, pc, frame,
                   req, resp, calls, posts, outcome, window, localStorage, toasts>>

handleDrop == \E files \in FileLists : Drop(files)

\* handleFileInputChange for the files of one dialog.  part_001 renders the
\* input only while no file is selected.
FileInputChange(files) ==
    /\ comp \in Demos
    /\ comp = "part_001" => ~Truthy(selectedFile)
    /\ IF Len(files) > 0
       THEN FileSelected(files[1])
       ELSE UNCHANGED <<error, result, selectedFile>>
    /\ UNCHANGED <<comp, isDragging, isProcessing, selectedLanguage, showBoundingBoxes,
                   pc, frame, req, resp, calls, posts, outcome, window, localStorage,
                   toasts>>

handleFileInputChange == \E files \in FileLists : FileInputChange(files)

\* The toggle is rendered with the result.
toggleBoundingBoxes ==
    /\ comp \in Demos
    /\ Truthy(result)
    /\ showBoundingBoxes' = ~showBoundingBoxes
    /\ UNCHANGED <<comp, isDragging, isProcessing, selectedFile, selectedLanguage, result,
                   error, pc, frame, req, resp, calls, outcome, window, localStorage,
                   toasts, posts>>

\* The language buttons: onClick={() => setSelectedLanguage(code)}.
setSelectedLanguage ==
    /\ comp \in Demos
    /\ \E code \in languages : selectedLanguage' = code
    /\ UNCHANGED <<comp, isDragging, isProcessing, selectedFile, result, error,
                   showBoundingBoxes, pc, frame, req, resp, calls, outcome, window,
                   localStorage, toasts, posts>>

\* The POST that processOCR builds: every parameter is a multipart form field.
OCRDemoRequest(file, language) ==
    [method |-> "POST", endpoint |-> "/ocr/process",
     form |-> [file |-> file, language |-> Str(<<language>>),
               confidence_threshold |-> Str(<<"0.7">>)],
     query |-> <<>>]

\* Faulty variant: the button is not disabled while processing.
processOCRAnytime ==
    /\ comp = "OCRDemo"
    /\ calls < MaxCalls
    /\ calls' = calls + 1
    /\ IF ~Truthy(selectedFile)
       THEN UNCHANGED <<isProcessing, error, result, pc, frame, req, resp, posts>>
       ELSE /\ isProcessing' = TRUE
            /\ error' = Null
            /\ result' = Null
            /\ frame' = [fn |-> "processOCR", file |-> selectedFile,
                         language |-> selectedLanguage]
            /\ req' = OCRDemoRequest(selectedFile, selectedLanguage)
            /\ resp' = Null
            /\ posts' = posts + 1
            /\ pc' = "fetch"
    /\ UNCHANGED <<comp, isDragging, selectedFile, selectedLanguage, showBoundingBoxes,
                   outcome, window, localStorage, toasts>>

\* Faulty variant: processOCR starts without setResult(null).
processOCRKeepResult ==
    /\ comp = "OCRDemo"
    /\ ~isProcessing
    /\ calls < MaxCalls
    /\ calls' = calls + 1
    /\ IF ~Truthy(selectedFile)
       THEN UNCHANGED <<isProcessing, error, result, pc, frame, req, resp, posts>>
       ELSE /\ isProcessing' = TRUE
            /\ error' = Null
            /\ result' = result
            /\ frame' = [fn |-> "processOCR", file |-> selectedFile,
                         language |-> selectedLanguage]
            /\ req' = OCRDemoRequest(selectedFile, selectedLanguage)
            /\ resp' = Null
            /\ posts' = posts + 1
            /\ pc' = "fetch"
    /\ UNCHANGED <<comp, isDragging, selectedFile, selectedLanguage, showBoundingBoxes,
                   outcome, window, localStorage, toasts>>

\* processOCR up to its first await.  The button is disabled while processing.
processOCR ==
    /\ comp = "OCRDemo"
    /\ ~isProcessing
    /\ calls < MaxCalls
    /\ calls' = calls + 1
    /\ IF ~Truthy(selectedFile)
       THEN UNCHANGED <<isProcessing, error, result, pc, frame, req, resp, posts>>
       ELSE /\ isProcessing' = TRUE
            /\ error' = Null
            /\ result' = Null
            /\ frame' = [fn |-> "processOCR", file |-> selectedFile,
                         language |-> selectedLanguage]
            /\ req' = OCRDemoRequest(selectedFile, selectedLanguage)
            /\ resp' = Null
            /\ posts' = posts + 1
            /\ pc' = "fetch"
    /\ UNCHANGED <<comp, isDragging, selectedFile, selectedLanguage, showBoundingBoxes,
                   outcome, window, localStorage, toasts>>

\* Faulty variant: the catch block issues the request again instead of giving up.
ProcessOCRCatchRetry(err) ==
    /\ req' = OCRDemoRequest(frame.file, frame.language)
    /\ posts' = posts + 1
    /\ pc' = "fetch"
    /\ resp' = Null
    /\ UNCHANGED <<error, isProcessing, frame, result>>

\* Faulty variant: line 197 uncommented, the catch block awaits simulateMockOCR.
ProcessOCRCatchMock(err) ==
    /\ error' = Concat(Str(<<"Failed to connect to OCR service: ">>),
                       IF err.t = "error" THEN err.message ELSE Str(<<"Unknown error">>))
    /\ pc' = "mockDelay"
    /\ req' = Null
    /\ resp' = Null
    /\ UNCHANGED <<isProcessing, frame, result, posts>>

\* Faulty variant: the catch block without the finally block.
ProcessOCRCatchNoFinally(err) ==
    /\ error' = Concat(Str(<<"Failed to connect to OCR service: ">>),
                       IF err.t = "error" THEN err.message ELSE Str(<<"Unknown error">>))
    /\ pc' = "idle"
    /\ frame' = NoFrame
    /\ req' = Null
    /\ resp' = Null
    /\ UNCHANGED <<isProcessing, result, posts>>

\* The catch block and the finally block of processOCR.
ProcessOCRCatch(err) ==
    /\ error' = Concat(Str(<<"Failed to connect to OCR service: ">>),
                       IF err.t = "error" THEN err.message ELSE Str(<<"Unknown error">>))
    /\ isProcessing' = FALSE
    /\ pc' = "idle"
    /\ frame' = NoFrame
    /\ req' = Null
    /\ resp' = Null
    /\ UNCHANGED <<result, posts>>

\* await fetch(...) rejects: no response at all.
processOCRFetchRejected ==
    /\ comp = "OCRDemo"
    /\ pc = "fetch"
    /\ ProcessOCRCatch(FetchTypeError)
    /\ UNCHANGED <<comp, isDragging, selectedFile, selectedLanguage, showBoundingBoxes,
                   calls, outcome, window, localStorage, toasts>>

\* await fetch(...) resolves with a Response; its body is read next.
processOCRFetchResolved ==
    /\ comp = "OCRDemo"
    /\ pc = "fetch"
    /\ \E status \in Statuses :
         /\ resp' = [t |-> "response", status |-> status]
         /\ pc' = IF Ok(status) THEN "okJson" ELSE "errJson"
    /\ req' = Null
    /\ UNCHANGED <<comp, isDragging, isProcessing, selectedFile, selectedLanguage, result,
                   error, showBoundingBoxes, frame, calls, outcome, window, localStorage,
                   toasts, posts>>

\* if (!response.ok): errorData, then throw.
ErrorFromBody(settled, prefix, status) ==
    LET errorData == IF settled.t = "rejected"
                     THEN Obj(Undefined, Undefined, Undefined, Undefined, Undefined)
                     ELSE settled.value
    IN IF ~CanRead(errorData)
       THEN PropTypeError
       ELSE Err("Error", Or(Prop(errorData, "detail"),
                            Concat(Str(<<prefix>>), Str(<<StatusText(status)>>))))

\* The Response once its body has been read.
BodyRead(response, settled) ==
    [t |-> "response", status |-> response.status, body |-> settled]

processOCRErrorBody ==
    /\ comp = "OCRDemo"
    /\ pc = "errJson"
    /\ \E settled \in JsonSettlements :
         ProcessOCRCatch(ErrorFromBody(settled, "OCR Processing failed: ", resp.status))
    /\ UNCHANGED <<comp, isDragging, selectedFile, selectedLanguage, showBoundingBoxes,
                   calls, outcome, window, localStorage, toasts>>

\* Faulty variant: the body is shown without the test of its success field.
ProcessOCROkUntested(settled) ==
    IF settled.t = "rejected"
    THEN ProcessOCRCatch(settled.reason)
    ELSE /\ result' = settled.value
         /\ isProcessing' = FALSE
         /\ pc' = "idle"
         /\ frame' = NoFrame
         /\ resp' = Null
         /\ UNCHANGED <<error, req, posts>>

\* The rest of the try block once the body is read, and the finally block.
ProcessOCROk(settled) ==
    IF settled.t = "rejected"
    THEN ProcessOCRCatch(settled.reason)
    ELSE LET ocrResult == settled.value IN
         IF ~CanRead(ocrResult)
         THEN ProcessOCRCatch(PropTypeError)
         ELSE IF ~Truthy(Prop(ocrResult, "success"))
         THEN ProcessOCRCatch(Err("Error",
                  Or(Prop(ocrResult, "error"),
                     Str(<<"OCR processing was not successful">>))))
         ELSE /\ result' = ocrResult
              /\ isProcessing' = FALSE
              /\ pc' = "idle"
              /\ frame' = NoFrame
              /\ resp' = Null
              /\ UNCHANGED <<error, req, posts>>

\* const ocrResult = await response.json(), the success test, setResult.
processOCROkBody ==
    /\ comp = "OCRDemo"
    /\ pc = "okJson"
    /\ \E settled \in JsonSettlements : ProcessOCROk(settled)
    /\ UNCHANGED <<comp, isDragging, selectedFile, selectedLanguage, showBoundingBoxes,
                   calls, outcome, window, localStorage, toasts>>

(***************************************************************************)
(* part_001: the variant with a health check and a mock fallback.          *)
(***************************************************************************)
\* The POST of part_001: the file is a form field, the rest a query string.
OCRDemoRequest_p1(file, language) ==
    [method |-> "POST", endpoint |-> "/ocr/process",
     form |-> [file |-> file],
     query |-> [language |-> Str(<<language>>),
                confidence_threshold |-> Str(<<"0.8">>)]]

HealthRequest == [method |-> "GET", endpoint |-> "/health", form |-> <<>>, query |-> <<>>]

\* mockText: the first line of each text (the Chinese one transliterated).
mockText(language) ==
    CASE language = "ms" -> Str(<<"KERAJAAN MALAYSIA">>)
      [] language = "zh" -> Str(<<"Malaixiya Zhengfu">>)
      [] OTHER -> Str(<<"GOVERNMENT OF MALAYSIA">>)

\* Faulty variant: the mock reports Bahasa Malaysia whatever was requested.
mockResultFixedLanguage(file, language) ==
    [t |-> "obj", success |-> Bool(TRUE), text |-> mockText("ms"),
     language_detected |-> Str(<<"ms">>),
     file_size |-> IF Truthy(file) THEN Or(Num(file.size), Num(0)) ELSE Num(0),
     file_type |-> IF Truthy(file) THEN Or(Str(<<file.type>>), Str(<<"image/jpeg">>))
                   ELSE Str(<<"image/jpeg">>),
     processing_engine |-> Str(<<"demo_mode_paddleocr">>),
     language_requested |-> Str(<<"ms">>)]

\* mockResult of simulateMockOCR, built from the values its closure holds
\* (the fields of metadata beside the others, constant fields left out).
mockResult(file, language) ==
    [t |-> "obj", success |-> Bool(TRUE), text |-> mockText(language),
     language_detected |-> Str(<<language>>),
     file_size |-> IF Truthy(file) THEN Or(Num(file.size), Num(0)) ELSE Num(0),
     file_type |-> IF Truthy(file) THEN Or(Str(<<file.type>>), Str(<<"image/jpeg">>))
                   ELSE Str(<<"image/jpeg">>),
     processing_engine |-> Str(<<"demo_mode_paddleocr">>),
     language_requested |-> Str(<<language>>)]

DemoNotice ==
    Str(<<"Demo Mode: Backend not available. Showing sample Malaysian OCR results.">>)

\* processOCR up to its first await, inside checkBackendAvailability.
processOCR_p1 ==
    /\ comp = "part_001"
    /\ ~isProcessing
    /\ calls < MaxCalls
    /\ calls' = calls + 1
    /\ IF ~Truthy(selectedFile)
       THEN UNCHANGED <<isProcessing, error, result, pc, frame, req, resp>>
       ELSE /\ isProcessing' = TRUE
            /\ error' = Null
            /\ result' = Null
            /\ frame' = [fn |-> "processOCR", file |-> selectedFile,
                         language |-> selectedLanguage]
            /\ req' = HealthRequest
            /\ resp' = Null
            /\ pc' = "health"
    /\ UNCHANGED <<comp, isDragging, selectedFile, selectedLanguage, showBoundingBoxes,
                   outcome, window, localStorage, toasts, posts>>

\* A call of simulateMockOCR up to its await of the 2 s timer.
CallSimulateMockOCR ==
    /\ pc' = "mockDelay"
    /\ req' = Null
    /\ resp' = Null
    /\ UNCHANGED <<isProcessing, result, error, frame, posts>>

\* checkBackendAvailability settles: the fetch of /health rejects (network
\* error, or the 3 s AbortSignal) or resolves with a status.
checkBackendAvailability ==
    /\ comp = "part_001"
    /\ pc = "health"
    /\ \E isBackendAvailable \in {FALSE} \cup {Ok(status) : status \in Statuses} :
         IF ~isBackendAvailable
         THEN CallSimulateMockOCR
         ELSE /\ req' = OCRDemoRequest_p1(frame.file, frame.language)
              /\ posts' = posts + 1
              /\ pc' = "fetch"
              /\ UNCHANGED <<isProcessing, result, error, frame, resp>>
    /\ UNCHANGED <<comp, isDragging, selectedFile, selectedLanguage, showBoundingBoxes,
                   calls, outcome, window, localStorage, toasts>>

processOCRFetchRejected_p1 ==
    /\ comp = "part_001"
    /\ pc = "fetch"
    /\ CallSimulateMockOCR
    /\ UNCHANGED <<comp, isDragging, selectedFile, selectedLanguage, showBoundingBoxes,
                   calls, outcome, window, localStorage, toasts>>

processOCRFetchResolved_p1 ==
    /\ comp = "part_001"
    /\ pc = "fetch"
    /\ \E status \in Statuses :
         /\ resp' = [t |-> "response", status |-> status]
         /\ pc' = IF Ok(status) THEN "okJson" ELSE "errJson"
    /\ req' = Null
    /\ UNCHANGED <<comp, isDragging, isProcessing, selectedFile, selectedLanguage, result,
                   error, showBoundingBoxes, frame, calls, outcome, window, localStorage,
                   toasts, posts>>

\* if (!response.ok): whatever is thrown, the catch block calls simulateMockOCR.
processOCRErrorBody_p1 ==
    /\ comp = "part_001"
    /\ pc = "errJson"
    /\ \E settled \in JsonSettlements :
         ErrorFromBody(settled, "OCR Processing failed: ", resp.status).t = "error"
    /\ CallSimulateMockOCR
    /\ UNCHANGED <<comp, isDragging, selectedFile, selectedLanguage, showBoundingBoxes,
                   calls, outcome, window, localStorage, toasts>>

\* The rest of the try block once the body is read, and the finally block.
ProcessOCROk_p1(settled) ==
    IF settled.t = "rejected"
    THEN CallSimulateMockOCR
    ELSE /\ result' = settled.value
         /\ isProcessing' = FALSE
         /\ pc' = "idle"
         /\ frame' = NoFrame
         /\ resp' = Null
         /\ UNCHANGED <<error, req, posts>>

\* const ocrResult = await response.json(); setResult(ocrResult); finally.
processOCROkBody_p1 ==
    /\ comp = "part_001"
    /\ pc = "okJson"
    /\ \E settled \in JsonSettlements : ProcessOCROk_p1(settled)
    /\ UNCHANGED <<comp, isDragging, selectedFile, selectedLanguage, showBoundingBoxes,
                   calls, outcome, window, localStorage, toasts>>

\* The timer of simulateMockOCR fires: the mock is shown, then the finally block.
simulateMockOCR ==
    /\ comp = "part_001"
    /\ pc = "mockDelay"
    /\ result' = mockResult(frame.file, frame.language)
    /\ error' = DemoNotice
    /\ isProcessing' = FALSE
    /\ pc' = "idle"
    /\ frame' = NoFrame
    /\ UNCHANGED <<comp, isDragging, selectedFile, selectedLanguage, showBoundingBoxes,
                   req, resp, calls, posts, outcome, window, localStorage, toasts>>

\* Faulty variant: resetDemo also aborts the running request.
resetDemoAbort ==
    /\ comp = "part_001"
    /\ Truthy(selectedFile)
    /\ selectedFile' = Null
    /\ result' = Null
    /\ error' = Null
    /\ showBoundingBoxes' = FALSE
    /\ isProcessing' = FALSE
    /\ pc' = "idle"
    /\ frame' = NoFrame
    /\ req' = Null
    /\ UNCHANGED <<comp, isDragging, selectedLanguage, resp, calls, posts, outcome, window,
                   localStorage, toasts>>

\* "Choose Different File", rendered while a file is selected.
resetDemo ==
    /\ comp = "part_001"
    /\ Truthy(selectedFile)
    /\ selectedFile' = Null
    /\ result' = Null
    /\ error' = Null
    /\ showBoundingBoxes' = FALSE
    /\ UNCHANGED <<comp, isDragging, isProcessing, selectedLanguage, pc, frame, req, resp,
                   calls, posts, outcome, window, localStorage, toasts>>

Part001Next ==
    \/ processOCR_p1
    \/ checkBackendAvailability
    \/ processOCRFetchRejected_p1
    \/ processOCRFetchResolved_p1
    \/ processOCRErrorBody_p1
    \/ processOCROkBody_p1
    \/ simulateMockOCR
    \/ resetDemo

(***************************************************************************)
(* lib/api.ts: MataOCRAPI, the fetch client.  One call at a time is        *)
(* followed from its invocation to the settlement of its promise.          *)
(***************************************************************************)
\* Number.prototype.toString for the thresholds used here.
NumberToString(v) == Str(<<CASE v.n = 0 -> "0" [] v.n = 1 -> "1" [] OTHER -> "NaN">>)

\* URLSearchParams.append
ParamsAppend(params, name, value) == (name :> value) @@ params

\* options of api.processOCR: every field is optional.
LanguageOptions == {Undefined, Str(<<>>), Str(<<"ms">>)}

ProjectIdOptions == {Undefined, Str(<<"proj_1">>)}

ThresholdOptions == {Undefined, Num(0), Num(1)}

\* Faulty variant: a parameter is appended whenever it is not undefined.
ApiProcessOCRRequestDefined(file, options) ==
    LET p0 == <<>>
        p1 == IF options.language # Undefined
              THEN ParamsAppend(p0, "language", options.language) ELSE p0
        p2 == IF options.project_id # Undefined
              THEN ParamsAppend(p1, "project_id", options.project_id) ELSE p1
        p3 == IF options.confidence_threshold # Undefined
              THEN ParamsAppend(p2, "confidence_threshold",
                          NumberToString(options.confidence_threshold))
              ELSE p2
    IN [method |-> "POST", endpoint |-> "/ocr/process",
        form |-> [file |-> file], query |-> p3]

\* The POST of api.processOCR: a parameter is appended only if it is truthy.
ApiProcessOCRRequest(file, options) ==
    LET p0 == <<>>
        p1 == IF Truthy(options.language)
              THEN ParamsAppend(p0, "language", options.language) ELSE p0
        p2 == IF Truthy(options.project_id)
              THEN ParamsAppend(p1, "project_id", options.project_id) ELSE p1
        p3 == IF Truthy(options.confidence_threshold)
              THEN ParamsAppend(p2, "confidence_threshold",
                          NumberToString(options.confidence_threshold))
              ELSE p2
    IN [method |-> "POST", endpoint |-> "/ocr/process",
        form |-> [file |-> file], query |-> p3]

ApiUploadRequest(file, project_id) ==
    [method |-> "POST", endpoint |-> "/upload",
     form |-> IF Truthy(project_id)
              THEN ParamsAppend([file |-> file], "project_id", project_id)
              ELSE [file |-> file],
     query |-> <<>>]

\* The calls of request<T>: health, getSupportedLanguages, createProject,
\* getProjects, getStats.
ApiEndpoints == {<<"GET", "/health">>, <<"GET", "/languages">>, <<"POST", "/projects">>,
                 <<"GET", "/projects">>, <<"GET", "/stats">>}

\* The message prefix each function uses for a response that is not ok.
ErrorPrefix(fn) ==
    CASE fn = "request" -> "API Error: "
      [] fn = "processOCR" -> "OCR Processing failed: "
      [] fn = "uploadFile" -> "Upload failed: "

ApiCall(fn, options, request) ==
    /\ comp = "api"
    /\ pc = "idle"
    /\ calls < MaxCalls
    /\ calls' = calls + 1
    /\ frame' = [fn |-> fn, file |-> Null, language |-> "", options |-> options]
    /\ req' = request
    /\ resp' = Null
    /\ outcome' = Null
    /\ posts' = IF request.method = "POST" /\ request.endpoint = "/ocr/process"
                THEN posts + 1 ELSE posts
    /\ pc' = "fetch"
    /\ UNCHANGED <<comp, isDragging, isProcessing, selectedFile, selectedLanguage, result,
                   error, showBoundingBoxes, window, localStorage, toasts>>

\* request<T>(endpoint, options) up to its await of fetch.
api_request ==
    \E call \in ApiEndpoints :
        ApiCall("request", Undefined, [method |-> call[1], endpoint |-> call[2],
                                       form |-> <<>>, query |-> <<>>])

\* api.processOCR(file, options) up to its await of fetch.
api_processOCR ==
    \E file \in Files, language \in LanguageOptions, project_id \in ProjectIdOptions,
       confidence_threshold \in ThresholdOptions :
        LET options == [language |-> language, project_id |-> project_id,
                        confidence_threshold |-> confidence_threshold]
        IN ApiCall("processOCR", options, ApiProcessOCRRequest(file, options))

\* api.uploadFile(file, project_id) up to its await of fetch.
api_uploadFile ==
    \E file \in Files, project_id \in ProjectIdOptions :
        ApiCall("uploadFile", Undefined, ApiUploadRequest(file, project_id))

\* fetch rejects: the async function rejects with the same error.
api_fetchRejected ==
    /\ comp = "api"
    /\ pc = "fetch"
    /\ outcome' = Rejected(FetchTypeError)
    /\ resp' = Rejected(FetchTypeError)
    /\ pc' = "idle"
    /\ req' = Null
    /\ UNCHANGED <<frame, calls>>
    /\ UNCHANGED <<comp, isDragging, isProcessing, selectedFile, selectedLanguage, result,
                   error, showBoundingBoxes, window, localStorage, toasts, posts>>

api_fetchResolved ==
    /\ comp = "api"
    /\ pc = "fetch"
    /\ \E status \in Statuses :
         /\ resp' = [t |-> "response", status |-> status]
         /\ pc' = IF Ok(status) THEN "okJson" ELSE "errJson"
    /\ req' = Null
    /\ UNCHANGED <<frame, calls, outcome>>
    /\ UNCHANGED <<comp, isDragging, isProcessing, selectedFile, selectedLanguage, result,
                   error, showBoundingBoxes, window, localStorage, toasts, posts>>

\* What the function does with the body of a response that is not ok.
ApiNotOk(settled, fn, status) == Rejected(ErrorFromBody(settled, ErrorPrefix(fn), status))

\* if (!response.ok) { errorData ...; throw new Error(...) }.  The response
\* read stays in resp until the next call.
api_errorBody ==
    /\ comp = "api"
    /\ pc = "errJson"
    /\ \E settled \in JsonSettlements :
         /\ outcome' = ApiNotOk(settled, frame.fn, resp.status)
         /\ resp' = BodyRead(resp, settled)
    /\ pc' = "idle"
    /\ UNCHANGED <<frame, req, calls>>
    /\ UNCHANGED <<comp, isDragging, isProcessing, selectedFile, selectedLanguage, result,
                   error, showBoundingBoxes, window, localStorage, toasts, posts>>

\* return response.json()
api_okBody ==
    /\ comp = "api"
    /\ pc = "okJson"
    /\ \E settled \in JsonSettlements :
         /\ outcome' = settled
         /\ resp' = BodyRead(resp, settled)
    /\ pc' = "idle"
    /\ UNCHANGED <<frame, req, calls>>
    /\ UNCHANGED <<comp, isDragging, isProcessing, selectedFile, selectedLanguage, result,
                   error, showBoundingBoxes, window, localStorage, toasts, posts>>

ApiNext ==
    \/ api_request
    \/ api_processOCR
    \/ api_uploadFile
    \/ api_fetchRejected
    \/ api_fetchResolved
    \/ api_errorBody
    \/ api_okBody

(***************************************************************************)
(* validateFile on its own: the three copies (OCRDemo.tsx, part_001,       *)
(* lib/api.ts) applied to every class of file.                             *)
(***************************************************************************)
\* .env.local: NEXT_PUBLIC_MAX_FILE_SIZE, as the characters of its value.
EnvMaxFileSize == Str(<<"1", "0", "4", "8", "5", "7", "6", "0">>)

\* .env.local: NEXT_PUBLIC_ALLOWED_TYPES, with its separators.
EnvAllowedTypes ==
    Str(<<"image/jpeg", ",", "image/png", ",", "image/jpg", ",", "application/pdf">>)

DigitValue(c) ==
    CASE c = "0" -> 0 [] c = "1" -> 1 [] c = "2" -> 2 [] c = "3" -> 3 [] c = "4" -> 4
      [] c = "5" -> 5 [] c = "6" -> 6 [] c = "7" -> 7 [] c = "8" -> 8 [] c = "9" -> 9

\* parseInt of a string of decimal digits.
RECURSIVE ParseDigits(_, _)
ParseDigits(chars, acc) ==
    IF chars = <<>> THEN acc
    ELSE ParseDigits(Tail(chars), acc * 10 + DigitValue(Head(chars)))

parseInt(str) == ParseDigits(str.s, 0)

\* String.prototype.split(',')
RECURSIVE SplitPieces(_)
SplitPieces(pieces) ==
    IF pieces = <<>> THEN <<>>
    ELSE IF Head(pieces) = "," THEN SplitPieces(Tail(pieces))
    ELSE <<Head(pieces)>> \o SplitPieces(Tail(pieces))

split(str) == SplitPieces(str.s)

\* lib/api.ts, validateFile: the limits come from the environment, with defaults.
validateFile_api(file, envMaxFileSize, envAllowedTypes) ==
    LET max == parseInt(Or(envMaxFileSize, EnvMaxFileSize))
        types == split(Or(envAllowedTypes, EnvAllowedTypes))
    IN IF file.size > max
       THEN [valid |-> FALSE,
             error |-> Str(<<"File too large. Maximum size: ", "10.0", "MB">>)]
       ELSE IF ~(\E i \in DOMAIN types : types[i] = file.type)
       THEN [valid |-> FALSE,
             error |-> Str(<<"File type not supported. Allowed: ">> \o types)]
       ELSE [valid |-> TRUE, error |-> Undefined]

Validated(copy, file, validation) ==
    /\ comp = "validateFile"
    /\ calls < MaxCalls
    /\ calls' = calls + 1
    /\ frame' = [fn |-> copy, file |-> file, language |-> ""]
    /\ outcome' = Resolved(validation)
    /\ UNCHANGED <<comp, isDragging, isProcessing, selectedFile, selectedLanguage, result,
                   error, showBoundingBoxes, pc, req, resp, window, localStorage, toasts,
                   posts>>

validateFile_call ==
    \E file \in AllFiles : Validated("OCRDemo.tsx", file, validateFile(file))

validateFile_p1_call ==
    \E file \in AllFiles : Validated("part_001", file, validateFile_p1(file))

validateFile_api_call ==
    \E file \in AllFiles, envMaxFileSize \in {Undefined, EnvMaxFileSize},
       envAllowedTypes \in {Undefined, EnvAllowedTypes} :
        Validated("api.ts", file, validateFile_api(file, envMaxFileSize, envAllowedTypes))

ValidateNext ==
    \/ validateFile_call
    \/ validateFile_p1_call
    \/ validateFile_api_call

(***************************************************************************)
(* lib/api.ts: MataOCRClient, the axios client with its interceptors.      *)
(***************************************************************************)
\* v?.field
OptProp(v, field) == IF CanRead(v) THEN Prop(v, field) ELSE Undefined

Tokens == {Null, Str(<<>>), Str(<<"tok_a">>), Str(<<"tok_b">>)}

\* The rest of the application (or the user) writes or removes the token.
storageWrite ==
    /\ comp = "client"
    /\ window
    /\ \E token \in Tokens : localStorage' = token
    /\ UNCHANGED <<comp, isDragging, isProcessing, selectedFile, selectedLanguage, result,
                   error, showBoundingBoxes, pc, frame, req, resp, calls, outcome, window,
                   toasts, posts>>

getAuthToken == IF window THEN localStorage ELSE Null

\* Faulty variant: the header is set whenever the token is not null.
RequestInterceptorNotNull(config) ==
    LET token == getAuthToken IN
    IF token # Null
    THEN [config EXCEPT !.headers =
             ParamsAppend(@, "Authorization", Concat(Str(<<"Bearer ">>), token))]
    ELSE config

\* The request interceptor: the config it returns.
RequestInterceptor(config) ==
    LET token == getAuthToken IN
    IF Truthy(token)
    THEN [config EXCEPT !.headers =
             ParamsAppend(@, "Authorization", Concat(Str(<<"Bearer ">>), token))]
    ELSE config

ClientCalls == {<<"GET", "/health">>, <<"GET", "/projects">>, <<"POST", "/projects">>,
                <<"POST", "/train">>}

\* A method of the client up to its await: the request leaves through the
\* request interceptor.
client_request ==
    /\ comp = "client"
    /\ pc = "idle"
    /\ calls < MaxCalls
    /\ calls' = calls + 1
    /\ \E call \in ClientCalls :
         req' = RequestInterceptor(
                    [method |-> call[1], endpoint |-> call[2],
                     headers |-> [ContentType |-> Str(<<"application/json">>)]])
    /\ frame' = [fn |-> "client", file |-> Null, language |-> ""]
    /\ resp' = Null
    /\ outcome' = Null
    /\ toasts' = <<>>
    /\ pc' = "axios"
    /\ UNCHANGED <<comp, isDragging, isProcessing, selectedFile, selectedLanguage, result,
                   error, showBoundingBoxes, window, localStorage, posts>>

\* What a response body can be for axios: parsed JSON, or text.
AxiosData ==
    JsonBodies \cup {Undefined, Str(<<"<html>">>),
                     Obj(Undefined, Undefined, Undefined, Str(<<"Server busy">>), Undefined),
                     Obj(Undefined, Str(<<"Not found">>), Undefined, Str(<<"Server busy">>),
                         Undefined)}

AxiosResponse(status, data) == [t |-> "response", status |-> status, data |-> data]

AxiosError(response, request) ==
    [t |-> "error", name |-> "AxiosError", message |-> Str(<<"Request failed">>),
     response |-> response, request |-> request]

\* The failures axios hands to the response interceptor: a response with a
\* status outside 2xx; a request without a response (network error, the 30 s
\* timeout); neither (the request could not be set up).
AxiosErrors ==
    {AxiosError(AxiosResponse(status, data), Bool(TRUE)) :
         status \in {st \in Statuses : ~Ok(st)}, data \in AxiosData}
    \cup {AxiosError(Undefined, Bool(TRUE)), AxiosError(Undefined, Undefined)}

\* Faulty variant: the handler shows its toast and resolves instead of rejecting.
ResponseInterceptorSwallows(err) ==
    LET message ==
            IF Truthy(err.response)
            THEN Or(Or(OptProp(err.response.data, "detail"),
                       OptProp(err.response.data, "message")),
                    Str(<<"An error occurred">>))
            ELSE IF Truthy(err.request)
            THEN Str(<<"Network error. Please check your connection.">>)
            ELSE Str(<<"An unexpected error occurred">>)
    IN [toasts |-> <<message>>, settled |-> Resolved(Undefined)]

\* The response interceptor's handler of a failure: the toasts it shows and
\* how the promise it returns settles.
ResponseInterceptorRejected(err) ==
    LET message ==
            IF Truthy(err.response)
            THEN Or(Or(OptProp(err.response.data, "detail"),
                       OptProp(err.response.data, "message")),
                    Str(<<"An error occurred">>))
            ELSE IF Truthy(err.request)
            THEN Str(<<"Network error. Please check your connection.">>)
            ELSE Str(<<"An unexpected error occurred">>)
    IN [toasts |-> <<message>>, settled |-> Rejected(err)]

\* The request fails: the response interceptor runs, the method's await throws.
client_failed ==
    /\ comp = "client"
    /\ pc = "axios"
    /\ \E err \in AxiosErrors :
         LET handled == ResponseInterceptorRejected(err) IN
         /\ resp' = err
         /\ toasts' = toasts \o handled.toasts
         /\ outcome' = handled.settled
    /\ pc' = "idle"
    /\ req' = Null
    /\ UNCHANGED <<comp, isDragging, isProcessing, selectedFile, selectedLanguage, result,
                   error, showBoundingBoxes, frame, calls, window, localStorage, posts>>

\* The request succeeds: (response) => response, then return response.data.
client_succeeded ==
    /\ comp = "client"
    /\ pc = "axios"
    /\ \E status \in {st \in Statuses : Ok(st)}, data \in AxiosData :
         /\ resp' = AxiosResponse(status, data)
         /\ outcome' = Resolved(data)
    /\ pc' = "idle"
    /\ req' = Null
    /\ UNCHANGED <<comp, isDragging, isProcessing, selectedFile, selectedLanguage, result,
                   error, showBoundingBoxes, frame, calls, window, localStorage, toasts,
                   posts>>

ClientNext ==
    \/ storageWrite
    \/ client_request
    \/ client_failed
    \/ client_succeeded

(***************************************************************************)
(* part_011: DemoPage.  Its state is file (selectedFile here), result and  *)
(* loading (isProcessing here).                                            *)
(***************************************************************************)
\* onChange={(e) => setFile(e.target.files?.[0] || null)}
setFile ==
    /\ comp = "DemoPage"
    /\ \E files \in FileLists :
         selectedFile' = IF Len(files) > 0 THEN files[1] ELSE Null
    /\ UNCHANGED <<comp, isDragging, isProcessing, selectedLanguage, result, error,
                   showBoundingBoxes, pc, frame, req, resp, calls, posts, outcome, window,
                   localStorage, toasts>>

\* The POST of handleUpload: the file alone, to /upload.
UploadRequest(file) ==
    [method |-> "POST", endpoint |-> "/upload", form |-> [file |-> file], query |-> <<>>]

\* Faulty variant: setLoading(true) comes before the test of file.
handleUploadLoadingFirst ==
    /\ comp = "DemoPage"
    /\ ~isProcessing
    /\ calls < MaxCalls
    /\ calls' = calls + 1
    /\ isProcessing' = TRUE
    /\ IF ~Truthy(selectedFile)
       THEN UNCHANGED <<pc, frame, req, resp>>
       ELSE /\ frame' = [fn |-> "handleUpload", file |-> selectedFile, language |-> ""]
            /\ req' = UploadRequest(selectedFile)
            /\ resp' = Null
            /\ pc' = "fetch"
    /\ UNCHANGED <<comp, isDragging, selectedFile, selectedLanguage, result, error,
                   showBoundingBoxes, posts, outcome, window, localStorage, toasts>>

\* handleUpload up to its await of fetch.  The button is disabled while loading.
handleUpload ==
    /\ comp = "DemoPage"
    /\ ~isProcessing
    /\ calls < MaxCalls
    /\ calls' = calls + 1
    /\ IF ~Truthy(selectedFile)
       THEN UNCHANGED <<isProcessing, pc, frame, req, resp>>
       ELSE /\ isProcessing' = TRUE
            /\ frame' = [fn |-> "handleUpload", file |-> selectedFile, language |-> ""]
            /\ req' = UploadRequest(selectedFile)
            /\ resp' = Null
            /\ pc' = "fetch"
    /\ UNCHANGED <<comp, isDragging, selectedFile, selectedLanguage, result, error,
                   showBoundingBoxes, posts, outcome, window, localStorage, toasts>>

\* await fetch(...) rejects: the catch block logs, the finally block runs.
handleUploadFetchRejected ==
    /\ comp = "DemoPage"
    /\ pc = "fetch"
    /\ isProcessing' = FALSE
    /\ pc' = "idle"
    /\ frame' = NoFrame
    /\ req' = Null
    /\ UNCHANGED <<comp, isDragging, selectedFile, selectedLanguage, result, error,
                   showBoundingBoxes, resp, calls, posts, outcome, window, localStorage,
                   toasts>>

\* await fetch(...) resolves: the body is read whatever the status.
handleUploadFetchResolved ==
    /\ comp = "DemoPage"
    /\ pc = "fetch"
    /\ \E status \in Statuses : resp' = [t |-> "response", status |-> status]
    /\ pc' = "okJson"
    /\ req' = Null
    /\ UNCHANGED <<comp, isDragging, isProcessing, selectedFile, selectedLanguage, result,
                   error, showBoundingBoxes, frame, calls, posts, outcome, window,
                   localStorage, toasts>>

\* const data = await response.json(); setResult(data); catch; finally.
handleUploadBody ==
    /\ comp = "DemoPage"
    /\ pc = "okJson"
    /\ \E settled \in JsonSettlements :
         result' = IF settled.t = "resolved" THEN settled.value ELSE result
    /\ isProcessing' = FALSE
    /\ pc' = "idle"
    /\ frame' = NoFrame
    /\ resp' = Null
    /\ UNCHANGED <<comp, isDragging, selectedFile, selectedLanguage, error,
                   showBoundingBoxes, req, calls, posts, outcome, window, localStorage,
                   toasts>>

DemoPageNext ==
    \/ setFile
    \/ handleUpload
    \/ handleUploadFetchRejected
    \/ handleUploadFetchResolved
    \/ handleUploadBody

OCRDemoNext ==
    \/ handleDragOver
    \/ handleDragLeave
    \/ handleDrop
    \/ handleFileInputChange
    \/ setSelectedLanguage
    \/ toggleBoundingBoxes
    \/ processOCR
    \/ processOCRFetchRejected
    \/ processOCRFetchResolved
    \/ processOCRErrorBody
    \/ processOCROkBody

Next ==
    \/ OCRDemoNext
    \/ Part001Next
    \/ ApiNext
    \/ ValidateNext
    \/ ClientNext
    \/ DemoPageNext

\* The continuations of a running processOCR: each runs once the promise it
\* awaits has settled (fetch, response.json(), the 3 s abort of the health
\* check, the 2 s timer of the mock).
ProcessOCRContinues ==
    \/ processOCRFetchRejected
    \/ processOCRFetchResolved
    \/ processOCRErrorBody
    \/ processOCROkBody
    \/ checkBackendAvailability
    \/ processOCRFetchRejected_p1
    \/ processOCRFetchResolved_p1
    \/ processOCRErrorBody_p1
    \/ processOCROkBody_p1
    \/ simulateMockOCR

Spec == Init /\ [][Next]_vars

\* Every awaited promise settles and the event loop runs the continuation.
FairSpec == Spec /\ WF_vars(ProcessOCRContinues)

(***************************************************************************)
(* Properties.                                                             *)
(***************************************************************************)
IsOcrPost(r) == r # Null /\ r.method = "POST" /\ r.endpoint = "/ocr/process"

\* The error text processOCR of OCRDemo.tsx shows for a failed request.
IsFailureError(e) == Truthy(e) /\ e.s[1] = "Failed to connect to OCR service: "

\* A displayed result that is the hard-coded mock record.
IsMock(r) == Truthy(r) /\ "processing_engine" \in DOMAIN r

(* C1: no retry.  In OCRDemo.tsx and in MataOCRAPI a POST to /ocr/process  *)
(* is issued only by the step that invokes processOCR, and that step       *)
(* issues exactly one: no later step of the invocation (in particular the  *)
(* handling of a failure) issues another.                                  *)
C1_NoRetry ==
    [][(comp \in {"OCRDemo", "api"} /\ posts' # posts)
          => /\ posts' = posts + 1
             /\ calls' = calls + 1
             /\ frame'.fn = "processOCR"
             /\ IsOcrPost(req')]_vars

\* A request of OCRDemo.tsx has failed, and the one POST is all there was.
C1_Witness ==
    /\ comp = "OCRDemo"
    /\ pc = "idle"
    /\ IsFailureError(error)
    /\ calls = 1
    /\ posts = 1
    /\ req = Null

(* C2: in OCRDemo.tsx a request that fails (fetch rejects, or the status   *)
(* is not 2xx) ends processOCR with error set, result null and             *)
(* isProcessing false; simulateMockOCR never runs and no mock is shown.    *)
C2_FailureShowsError ==
    [][comp = "OCRDemo"
          => /\ ((pc = "fetch" /\ pc' \notin {"fetch", "okJson", "errJson"})
                    \/ (pc = "errJson" /\ pc' # "errJson"))
                   => /\ pc' = "idle"
                      /\ IsFailureError(error')
                      /\ result' = Null
                      /\ ~isProcessing'
             /\ pc' # "mockDelay"
             /\ ~IsMock(result')]_vars

\* A 500 without a usable body has been handled.
C2_Witness ==
    /\ comp = "OCRDemo"
    /\ pc = "idle"
    /\ error = Str(<<"Failed to connect to OCR service: ", "OCR Processing failed: ", "500">>)
    /\ result = Null
    /\ ~isProcessing

\* part_001: the steps in which the health check or the OCR request fails.
P1_FailureStep ==
    \/ pc = "health" /\ pc' \notin {"health", "fetch"}
    \/ pc = "fetch" /\ pc' \notin {"fetch", "okJson", "errJson"}
    \/ pc = "errJson" /\ pc' # "errJson"

(* C3 as claimed: in part_001 a failed health check or OCR request ends    *)
(* with the mock record whose language_detected is the selected language,  *)
(* the demo notice and isProcessing false.                                 *)
C3_MockSelectedLanguage ==
    [][comp = "part_001"
          => /\ P1_FailureStep => pc' = "mockDelay"
             /\ (pc = "mockDelay" /\ pc' # "mockDelay")
                   => /\ pc' = "idle"
                      /\ IsMock(result')
                      /\ result'.success = Bool(TRUE)
                      /\ result'.language_detected = Str(<<selectedLanguage'>>)
                      /\ error' = DemoNotice
                      /\ ~isProcessing']_vars

(* C3 amended: the same, with language_detected equal to the language that *)
(* was selected when processOCR was invoked (the value its closure holds), *)
(* which need not be the language selected when the mock is shown.         *)
C3_MockInvocationLanguage ==
    [][comp = "part_001"
          => /\ (pc = "idle" /\ pc' # "idle") => frame'.language = selectedLanguage
             /\ P1_FailureStep => pc' = "mockDelay" /\ frame' = frame
             /\ (pc = "mockDelay" /\ pc' # "mockDelay")
                   => /\ pc' = "idle"
                      /\ IsMock(result')
                      /\ result'.success = Bool(TRUE)
                      /\ result'.language_detected = Str(<<frame.language>>)
                      /\ error' = DemoNotice
                      /\ ~isProcessing']_vars

\* The mock is shown for a language other than the one now selected.
C3_Witness ==
    /\ comp = "part_001"
    /\ pc = "idle"
    /\ ~isProcessing
    /\ IsMock(result)
    /\ error = DemoNotice
    /\ result.language_detected = Str(<<"zh">>)
    /\ calls = 1

\* The request carries the parameter, as a form field or in the query string.
Carries(r, name) == name \in DOMAIN r.form \/ name \in DOMAIN r.query

(* C4 as claimed: every POST to /ocr/process issued by OCRDemo.processOCR  *)
(* (both variants) or api.processOCR carries the file, a language and a    *)
(* confidence_threshold.                                                   *)
C4_AllThreeParameters ==
    IsOcrPost(req)
        => /\ Carries(req, "file")
           /\ Carries(req, "language")
           /\ Carries(req, "confidence_threshold")

(* C4 amended: every such POST carries the file; those of OCRDemo carry    *)
(* the language and the confidence_threshold too; that of api.processOCR   *)
(* carries a language exactly when options.language is truthy and a        *)
(* confidence_threshold exactly when options.confidence_threshold is       *)
(* truthy (so neither for the default options, '' or 0).                   *)
C4_OptionalParameters ==
    IsOcrPost(req)
        => /\ Carries(req, "file")
           /\ comp \in Demos
                => Carries(req, "language") /\ Carries(req, "confidence_threshold")
           /\ comp = "api"
                => /\ Carries(req, "language") <=> Truthy(frame.options.language)
                   /\ Carries(req, "confidence_threshold")
                         <=> Truthy(frame.options.confidence_threshold)

\* api.processOCR has sent a file with a threshold of 0 and no language.
C4_Witness ==
    /\ comp = "api"
    /\ IsOcrPost(req)
    /\ frame.options.language = Undefined
    /\ frame.options.confidence_threshold = Num(0)
    /\ Carries(req, "file")
    /\ ~Carries(req, "language")
    /\ ~Carries(req, "confidence_threshold")

\* The steps that end an invocation of processOCR in either variant.
ProcessOCREnds == pc # "idle" /\ pc' = "idle"

(* C5: an OCR request in flight is never cancelled.  In both variants of   *)
(* OCRDemo the POST leaves flight only in the step in which fetch settles, *)
(* a step that selects no file, resets nothing and changes no language;    *)
(* and the step that ends processOCR clears isProcessing and writes the    *)
(* outcome: the parsed body into result, or the failure message (in        *)
(* part_001: the mock and the demo notice) into error.                     *)
C5_NeverCancelled ==
    [][(comp \in Demos)
          => /\ (IsOcrPost(req) /\ req' # req)
                   => /\ pc = "fetch"
                      /\ pc' \in {"okJson", "errJson", "idle", "mockDelay"}
                      /\ selectedFile' = selectedFile
                      /\ selectedLanguage' = selectedLanguage
             /\ (pc # "idle" /\ pc' # pc)
                   => selectedFile' = selectedFile /\ frame.fn = "processOCR"
             /\ ProcessOCREnds
                   => /\ ~isProcessing'
                      /\ (comp = "OCRDemo")
                           => ((result' \in JsonBodies /\ Truthy(result') /\ pc = "okJson")
                               \/ (IsFailureError(error') /\ result' = result))
                      /\ (comp = "part_001")
                           => ((result' \in JsonBodies /\ pc = "okJson")
                               \/ (IsMock(result') /\ error' = DemoNotice))]_vars

\* part_001: the demo was reset while processOCR ran, and the response of
\* its request was written into result all the same.
C5_Witness ==
    /\ comp = "part_001"
    /\ pc = "idle"
    /\ calls = 1
    /\ posts = 1
    /\ selectedFile = Null
    /\ Truthy(result)
    /\ ~IsMock(result)

(* C6: in OCRDemo (both variants), in every reachable state in which       *)
(* isProcessing is true result is null: no earlier result is displayed     *)
(* while a request is being processed.                                     *)
C6_ProcessingHasNoResult == (comp \in Demos /\ isProcessing) => result = Null

\* OCRDemo.tsx: a second request is in flight.
C6_Witness ==
    /\ comp = "OCRDemo"
    /\ isProcessing
    /\ pc = "fetch"
    /\ calls = 2
    /\ posts = 2
    /\ result = Null

C8_GifAccepted ==
    comp = "OCRDemo"
        => \A file \in Files :
              (file.type = "image/gif" /\ file.size <= 10485760)
                  => ENABLED (Drop(<<file>>) /\ selectedFile' = file)

\* The detail field of a parsed body, when it is an object with a non-empty one.
HasDetail(body) ==
    body.t = "resolved" /\ body.value.t = "obj" /\ Truthy(body.value.detail)

(* C9: for every response of MataOCRAPI whose status is not 2xx, request,  *)
(* processOCR and uploadFile reject with an Error whose message is the     *)
(* body's detail when the body is JSON with a non-empty detail, and        *)
(* otherwise a message that contains the numeric status.                   *)
C9_StatusPassthrough ==
    (comp = "api" /\ pc = "idle" /\ resp.t = "response" /\ ~Ok(resp.status))
        => /\ outcome.t = "rejected"
           /\ outcome.reason.t = "error"
           /\ IF HasDetail(resp.body)
              THEN outcome.reason.message = resp.body.value.detail
              ELSE \E i \in DOMAIN outcome.reason.message.s :
                      outcome.reason.message.s[i] = StatusText(resp.status)

\* The toast the response interceptor owes for a failure.
ExpectedToast(err) ==
    IF err.response # Undefined
    THEN LET data == err.response.data IN
         IF data.t = "obj" /\ Truthy(data.detail) THEN data.detail
         ELSE IF data.t = "obj" /\ Truthy(data.message) THEN data.message
         ELSE Str(<<"An error occurred">>)
    ELSE IF err.request # Undefined
    THEN Str(<<"Network error. Please check your connection.">>)
    ELSE Str(<<"An unexpected error occurred">>)

(* C10: for every failed request of MataOCRClient exactly one toast is     *)
(* shown (the server's detail or message, or 'An error occurred', when a   *)
(* response was received; the network-error message when a request was     *)
(* sent without a response; the unexpected-error message otherwise) and    *)
(* the call rejects with the original error.                               *)
C10_OneToastThenReject ==
    /\ (comp = "client" /\ pc = "idle" /\ resp.t = "error")
          => /\ toasts = <<ExpectedToast(resp)>>
             /\ outcome = Rejected(resp)
    /\ (comp = "client" /\ pc = "idle" /\ resp.t # "error") => toasts = <<>>

\* A 404 whose body has both a detail and a message was handled.
C10_Witness ==
    /\ comp = "client"
    /\ pc = "idle"
    /\ resp.t = "error"
    /\ resp.response # Undefined
    /\ resp.response.status = 404
    /\ resp.response.data.t = "obj"
    /\ Truthy(resp.response.data.detail)
    /\ Truthy(resp.response.data.message)
    /\ toasts = <<Str(<<"Not found">>)>>
    /\ outcome = Rejected(resp)

\* OCRDemo.tsx: the step of processOCR that reads this body of a 2xx response.
OkBodyStep(body) ==
    /\ ProcessOCROk(Resolved(body))
    /\ UNCHANGED <<comp, isDragging, selectedFile, selectedLanguage, showBoundingBoxes,
                   calls, outcome, window, localStorage, toasts>>

\* What OCRDemo.tsx owes for the body of a 2xx response.
OkBodyHandled(body) ==
    IF body.t = "obj" /\ body.success = Bool(TRUE)
    THEN result' = body /\ error' = error
    ELSE /\ result' = Null
         /\ IsFailureError(error')
         /\ body.t = "obj"
               => error' = Str(<<"Failed to connect to OCR service: ">>
                               \o (IF Truthy(body.error) THEN body.error.s
                                   ELSE <<"OCR processing was not successful">>))

C12_EventuallyNotProcessing ==
    /\ []((comp \in Demos) => (isProcessing <=> pc # "idle"))
    /\ (comp \in Demos /\ isProcessing) ~> ~isProcessing

\* Two invocations have run to their end, the second with a result.
C12_Witness ==
    /\ comp \in Demos
    /\ calls = 2
    /\ posts = 2
    /\ pc = "idle"
    /\ ~isProcessing
    /\ Truthy(result)

(* C13: at most one POST to /ocr/process of an OCRDemo instance is in      *)
(* flight at any time: processOCR starts only while isProcessing is false  *)
(* (its button is disabled otherwise), a POST is issued only when none is  *)
(* in flight, and isProcessing is true for as long as one is.              *)
C13_AtMostOneInFlight ==
    [][(comp \in Demos)
          => /\ calls' # calls => (~isProcessing /\ pc = "idle" /\ ~IsOcrPost(req))
             /\ posts' # posts
                   => (~IsOcrPost(req) /\ IsOcrPost(req') /\ posts' = posts + 1)
             /\ IsOcrPost(req) => isProcessing
             /\ IsOcrPost(req') => isProcessing']_vars

\* The second request of an instance is in flight, the first having settled.
C13_Witness ==
    /\ comp = "part_001"
    /\ IsOcrPost(req)
    /\ isProcessing
    /\ calls = 2
    /\ posts = 2

(* C14: processOCR (both variants of OCRDemo) and handleUpload (DemoPage)  *)
(* are no-ops when no file is selected: no request is sent and every state *)
(* variable is left unchanged.                                             *)
C14_NoFileNoOp ==
    [][(comp \in Demos \cup {"DemoPage"} /\ calls' # calls /\ ~Truthy(selectedFile))
          => UNCHANGED <<isDragging, isProcessing, selectedFile, selectedLanguage, result,
                         error, showBoundingBoxes, pc, frame, req, resp, posts>>]_vars

\* OCRDemo.tsx: processOCR has been called with no file selected.
C14_Witness ==
    /\ comp = "OCRDemo"
    /\ calls = 1
    /\ posts = 0
    /\ selectedFile = Null
    /\ pc = "idle"
    /\ ~isProcessing
    /\ result = Null
    /\ req = Null

\* What handleFileSelect of OCRDemo.tsx owes for a file that fails validation.
InvalidFileHandled(file) ==
    /\ error' = validateFile(file).error
    /\ Truthy(error')
    /\ UNCHANGED <<selectedFile, result, isProcessing, selectedLanguage,
                   showBoundingBoxes, pc, frame, req, resp, calls, posts>>

(* C15: in OCRDemo.tsx, in every reachable state, handleFileSelect with a  *)
(* file that fails validation (from the file input or from a drop) only    *)
(* sets error: the selected file, the result, isProcessing and the         *)
(* selected language are unchanged, and nothing is requested.              *)
C15_InvalidFileOnlyError ==
    comp = "OCRDemo"
        => \A file \in Files :
              ~validateFile(file).valid
                  => /\ ENABLED FileInputChange(<<file>>)
                     /\ ~ENABLED (FileInputChange(<<file>>) /\ ~InvalidFileHandled(file))
                     /\ ~ENABLED (FileInputChange(<<file>>) /\ isDragging' # isDragging)
                     /\ ENABLED Drop(<<file>>)
                     /\ ~ENABLED (Drop(<<file>>) /\ ~InvalidFileHandled(file))

\* A GIF was refused while the earlier file and its result stay on display.
C15_Witness ==
    /\ comp = "OCRDemo"
    /\ pc = "idle"
    /\ Truthy(selectedFile)
    /\ Truthy(result)
    /\ error = Str(<<"File type not supported. Please use JPG, PNG, or PDF.">>)

\* What handleFileSelect of OCRDemo.tsx owes for a file that passes validation.
ValidFileHandled(file) ==
    /\ selectedFile' = file
    /\ error' = Null
    /\ result' = Null
    /\ UNCHANGED <<isProcessing, selectedLanguage, showBoundingBoxes, pc, frame, req,
                   resp, calls, posts>>

(* C16: in OCRDemo.tsx, in every reachable state, handleFileSelect with a  *)
(* file that passes validation (from a drop or from the file input) leaves *)
(* selectedFile equal to that file, error null and result null, starts no  *)
(* request and leaves isProcessing and selectedLanguage unchanged.         *)
C16_ValidFileSelected ==
    comp = "OCRDemo"
        => \A file \in Files :
              validateFile(file).valid
                  => /\ ENABLED FileInputChange(<<file>>)
                     /\ ~ENABLED (FileInputChange(<<file>>) /\ ~ValidFileHandled(file))
                     /\ ENABLED Drop(<<file>>)
                     /\ ~ENABLED (Drop(<<file>>) /\ ~ValidFileHandled(file))

\* After a finished request a valid file was selected: error and result are
\* both cleared and nothing more was requested.
C16_Witness ==
    /\ comp = "OCRDemo"
    /\ pc = "idle"
    /\ calls = 1
    /\ posts = 1
    /\ selectedFile = File(maxSize, "application/pdf")
    /\ error = Null
    /\ result = Null
    /\ ~isProcessing

(* C17: every request sent by MataOCRClient carries the header             *)
(* Authorization: 'Bearer <token>' exactly when, at the time it is sent,   *)
(* the code runs in a browser and localStorage holds a non-empty value     *)
(* under 'mataocr_token'; the token is the one stored at that time.        *)
C17_AuthorizationIffToken ==
    [][(comp = "client" /\ pc = "idle" /\ pc' = "axios")
          => LET sent == "Authorization" \in DOMAIN req'.headers
                 held == window /\ localStorage.t = "str" /\ localStorage.s # <<>>
             IN /\ sent <=> held
                /\ sent => req'.headers.Authorization
                              = Str(<<"Bearer ">> \o localStorage.s)
                /\ "ContentType" \in DOMAIN req'.headers]_vars

\* The second request carries the token that replaced the first one's.
C17_Witness ==
    /\ comp = "client"
    /\ window
    /\ pc = "axios"
    /\ calls = 2
    /\ localStorage = Str(<<"tok_b">>)
    /\ "Authorization" \in DOMAIN req.headers
    /\ req.headers.Authorization = Str(<<"Bearer ", "tok_b">>)


=============================================================================
